---- MODULE Spec2Model ----
(***************************************************************************)
(* scripts/update-swagger.py: the one-shot patcher that adds the           *)
(* standardized "/<resource>/{id}/reviews" POST operations to swagger.yaml *)
(* and marks the legacy "/<resource>/add-review/{id}" operations as        *)
(* deprecated.                                                             *)
(*                                                                         *)
(* An f-string is a concatenation (\o) and the `in` operator on strings   *)
(* is a substring search.  A YAML mapping is a function on its keys; the   *)
(* `paths` mapping also records the insertion order of its keys.  Where a  *)
(* YAML null can stand for a string, null is None and the string s is      *)
(* Str(s).                                                                 *)
(***************************************************************************)
EXTENDS Integers, Sequences, FiniteSets, TLC

VARIABLES
  pc,         \* position of the process in the script
  file,       \* content of swagger.yaml on disk
  file0,      \* content of swagger.yaml when the process started
  swagger,    \* the loaded document (update_swagger local)
  paths,      \* the `paths` local of update_swagger
  processed,  \* table rows the for loop has finished
  out,        \* lines printed to the console, in order
  writes,     \* number of times swagger.yaml was opened for writing
  exitCode    \* exit status of the process, -1 while running

vars == <<pc, file, file0, swagger, paths, processed, out, writes, exitCode>>

----------------------------------------------------------------------------
(* Bounds of the explored document space *)

\* at most this many groups of paths (a table row's two paths, or the
\* unrelated path) are populated in the document the run starts from
MaxPresent == 2

\* at most this many of them are table rows in an arbitrary state (RowKinds);
\* the other populated rows hold an unpatched legacy operation (PlainKinds)
MaxRich == 1

----------------------------------------------------------------------------
(* Values *)

None == [none |-> TRUE]

Str(s) == [str |-> s]

\* d[k] = v on a mapping d
SetKey(d, k, v) == (k :> v) @@ d

\* Python's `needle in hay` on two strings
Contains(hay, needle) ==
  \E a \in 1..(Len(hay) - Len(needle) + 1) :
     SubSeq(hay, a, a + Len(needle) - 1) = needle

\* an insertion-ordered mapping with no key
EmptyMap == [keys |-> <<>>, val |-> <<>>]

\* `k in m` on an insertion-ordered mapping
HasKey(m, k) == k \in DOMAIN m.val

\* m[k] = v on an insertion-ordered mapping: a new key goes last
MapSet(m, k, v) ==
  [keys |-> IF HasKey(m, k) THEN m.keys ELSE Append(m.keys, k),
   val  |-> SetKey(m.val, k, v)]

----------------------------------------------------------------------------
(* String literals of the script *)

\* '/'
SLASH == "/"

\* 'Legacy'
LEGACY_WORD == "Legacy"

\* ' (Legacy - Use /'
SUFFIX_OPEN == " (Legacy - Use /"

\* ')'
SUFFIX_CLOSE == ")"

\* 'Add Review to '
SUMMARY_PREFIX == "Add Review to "

\* ' (Standardized)'
SUMMARY_SUFFIX == " (Standardized)"

\* ''
EMPTY_STR == ""

\* 'Add Review'
PlainSummary == "Add Review"

\* 'Legacy add review'
LegacyWordSummary == "Legacy add review"

\* '/users/login'
OtherKey == "/users/login"

\* 'Custom reviews'
CustomSummary == "Custom reviews"

\* the mapping of resources to update
updates ==
  << \* ('businesses/add-review/{id}', 'businesses/{id}/reviews', 'Businesses', 'Business')
     [legacy_path |-> "businesses/add-review/{id}",
      new_path |-> "businesses/{id}/reviews",
      resource_plural |-> "Businesses",
      resource_singular |-> "Business"],
     \* ('restaurants/add-review/{id}', 'restaurants/{id}/reviews', 'Restaurants', 'Restaurant')
     [legacy_path |-> "restaurants/add-review/{id}",
      new_path |-> "restaurants/{id}/reviews",
      resource_plural |-> "Restaurants",
      resource_singular |-> "Restaurant"],
     \* ('doctors/add-review/{id}', 'doctors/{id}/reviews', 'Doctors', 'Doctor')
     [legacy_path |-> "doctors/add-review/{id}",
      new_path |-> "doctors/{id}/reviews",
      resource_plural |-> "Doctors",
      resource_singular |-> "Doctor"],
     \* ('markets/add-review/{id}', 'markets/{id}/reviews', 'Markets', 'Market')
     [legacy_path |-> "markets/add-review/{id}",
      new_path |-> "markets/{id}/reviews",
      resource_plural |-> "Markets",
      resource_singular |-> "Market"],
     \* ('recipes/add-review/{id}', 'recipes/{id}/reviews', 'Recipes', 'Recipe')
     [legacy_path |-> "recipes/add-review/{id}",
      new_path |-> "recipes/{id}/reviews",
      resource_plural |-> "Recipes",
      resource_singular |-> "Recipe"],
     \* ('sanctuaries/add-review/{id}', 'sanctuaries/{id}/reviews', 'Sanctuaries', 'Sanctuary')
     [legacy_path |-> "sanctuaries/add-review/{id}",
      new_path |-> "sanctuaries/{id}/reviews",
      resource_plural |-> "Sanctuaries",
      resource_singular |-> "Sanctuary"],
     \* ('professions/add-review/{id}', 'professions/{id}/reviews', 'Professions', 'Profession')
     [legacy_path |-> "professions/add-review/{id}",
      new_path |-> "professions/{id}/reviews",
      resource_plural |-> "Professions",
      resource_singular |-> "Profession"] >>

N == Len(updates)

APP_JSON == "application/json"

ERROR_RESPONSE_REF == "#/components/schemas/ErrorResponse"

----------------------------------------------------------------------------
(* The operation template *)

build_error_response(description) ==
  [description |-> description,
   content |-> (APP_JSON :> [schema |-> ("$ref" :> ERROR_RESPONSE_REF)])]

\* the template with the singular name as its tag and no 422 response
build_review_post_operation_Wrong(resource_plural, resource_singular) ==
  [tags |-> <<resource_singular>>,
   summary |-> Str(SUMMARY_PREFIX \o resource_singular \o SUMMARY_SUFFIX),
   requestBody |->
     [required |-> TRUE,
      content |-> (APP_JSON :>
        [schema |-> [type |-> "object", required |-> <<"rating", "comment">>]])],
   responses |->
     ("201" :> [description |-> "Review created successfully"])
     @@ ("400" :> build_error_response("Bad Request"))
     @@ ("401" :> build_error_response("Unauthorized"))
     @@ ("403" :> build_error_response("Forbidden"))]

build_review_post_operation(resource_plural, resource_singular) ==
  [tags |-> <<resource_plural>>,
   summary |-> Str(SUMMARY_PREFIX \o resource_singular \o SUMMARY_SUFFIX),
   parameters |-> << [in |-> "path", name |-> "id", required |-> TRUE,
                      schema |-> [type |-> "string"]] >>,
   requestBody |->
     [required |-> TRUE,
      content |-> (APP_JSON :>
        [schema |->
          [type |-> "object",
           properties |->
             [rating  |-> [type |-> "integer", minimum |-> 1, maximum |-> 5],
              comment |-> [type |-> "string", maxLength |-> 1000],
              name    |-> [type |-> "string"]],
           required |-> <<"rating", "comment">>]])],
   responses |->
     ("201" :> [description |-> "Review created successfully",
                content |-> (APP_JSON :> [schema |-> [type |-> "object"]])])
     @@ ("400" :> build_error_response("Bad Request"))
     @@ ("401" :> build_error_response("Unauthorized"))
     @@ ("403" :> build_error_response("Forbidden"))
     @@ ("422" :> build_error_response("Unprocessable Entity")),
   security |-> << [bearerAuth |-> <<>>] >>]

----------------------------------------------------------------------------
(* The loop body.  A Python function that mutates `paths` and prints is an *)
(* operator from the mapping to the mapping afterwards, the lines printed  *)
(* and whether an exception left the function.                             *)

Outcome(p, lines, raised) == [paths |-> p, lines |-> lines, raised |-> raised]

Line(kind, key) == [kind |-> kind, key |-> key]

\* mark_legacy_deprecated that appends the suffix and forgets the flag
mark_legacy_deprecated_NoFlag(p, legacy_key, new_path) ==
  IF ~HasKey(p, legacy_key) \/ p.val[legacy_key] = None
     \/ "post" \notin DOMAIN p.val[legacy_key]
  THEN Outcome(p, <<>>, HasKey(p, legacy_key) /\ p.val[legacy_key] = None)
  ELSE LET item == p.val[legacy_key]
           current_summary == IF "summary" \in DOMAIN item.post
                              THEN item.post.summary ELSE Str(EMPTY_STR)
       IN IF current_summary = None THEN Outcome(p, <<>>, TRUE)
          ELSE LET post2 == IF ~Contains(current_summary.str, LEGACY_WORD)
                            THEN SetKey(item.post, "summary",
                                   Str(current_summary.str \o SUFFIX_OPEN
                                       \o new_path \o SUFFIX_CLOSE))
                            ELSE item.post
               IN Outcome(MapSet(p, legacy_key, SetKey(item, "post", post2)),
                          <<Line("Marked", legacy_key)>>, FALSE)

\* mark_legacy_deprecated without its print
mark_legacy_deprecated_NoPrint(p, legacy_key, new_path) ==
  IF ~HasKey(p, legacy_key) \/ p.val[legacy_key] = None
     \/ "post" \notin DOMAIN p.val[legacy_key]
  THEN Outcome(p, <<>>, HasKey(p, legacy_key) /\ p.val[legacy_key] = None)
  ELSE LET item == p.val[legacy_key]
           post1 == SetKey(item.post, "deprecated", TRUE)
           p1 == MapSet(p, legacy_key, SetKey(item, "post", post1))
           current_summary == IF "summary" \in DOMAIN post1
                              THEN post1.summary ELSE Str(EMPTY_STR)
       IN IF current_summary = None THEN Outcome(p1, <<>>, TRUE)
          ELSE LET post2 == IF ~Contains(current_summary.str, LEGACY_WORD)
                            THEN SetKey(post1, "summary",
                                   Str(current_summary.str \o SUFFIX_OPEN
                                       \o new_path \o SUFFIX_CLOSE))
                            ELSE post1
               IN Outcome(MapSet(p1, legacy_key, SetKey(item, "post", post2)),
                          <<>>, FALSE)

\* mark_legacy_deprecated that writes a fresh operation over the legacy one
mark_legacy_deprecated_Replace(p, legacy_key, new_path) ==
  IF ~HasKey(p, legacy_key) \/ p.val[legacy_key] = None
     \/ "post" \notin DOMAIN p.val[legacy_key]
  THEN Outcome(p, <<>>, HasKey(p, legacy_key) /\ p.val[legacy_key] = None)
  ELSE LET item == p.val[legacy_key]
           current_summary == IF "summary" \in DOMAIN item.post
                              THEN item.post.summary ELSE Str(EMPTY_STR)
       IN IF current_summary = None THEN Outcome(p, <<>>, TRUE)
          ELSE LET post2 == [deprecated |-> TRUE,
                             summary |->
                               IF ~Contains(current_summary.str, LEGACY_WORD)
                               THEN Str(current_summary.str \o SUFFIX_OPEN
                                        \o new_path \o SUFFIX_CLOSE)
                               ELSE current_summary]
               IN Outcome(MapSet(p, legacy_key, [post |-> post2]),
                          <<Line("Marked", legacy_key)>>, FALSE)

\* mark_legacy_deprecated that appends the suffix whatever the summary holds
mark_legacy_deprecated_Always(p, legacy_key, new_path) ==
  IF ~HasKey(p, legacy_key) \/ p.val[legacy_key] = None
     \/ "post" \notin DOMAIN p.val[legacy_key]
  THEN Outcome(p, <<>>, HasKey(p, legacy_key) /\ p.val[legacy_key] = None)
  ELSE LET item == p.val[legacy_key]
           post1 == SetKey(item.post, "deprecated", TRUE)
           current_summary == IF "summary" \in DOMAIN post1
                              THEN post1.summary ELSE Str(EMPTY_STR)
       IN IF current_summary = None THEN Outcome(p, <<>>, TRUE)
          ELSE Outcome(MapSet(p, legacy_key, SetKey(item, "post",
                         SetKey(post1, "summary",
                           Str(current_summary.str \o SUFFIX_OPEN
                               \o new_path \o SUFFIX_CLOSE)))),
                       <<Line("Marked", legacy_key)>>, FALSE)

mark_legacy_deprecated(p, legacy_key, new_path) ==
  IF ~HasKey(p, legacy_key)
  THEN Outcome(p, <<>>, FALSE)
  ELSE IF p.val[legacy_key] = None
  THEN Outcome(p, <<>>, TRUE)                \* 'post' in None: TypeError
  ELSE IF "post" \notin DOMAIN p.val[legacy_key]
  THEN Outcome(p, <<>>, FALSE)
  ELSE IF p.val[legacy_key].post = None
  THEN Outcome(p, <<>>, TRUE)                \* None['deprecated'] = True: TypeError
  ELSE
    LET item == p.val[legacy_key]
        post1 == SetKey(item.post, "deprecated", TRUE)
        p1 == MapSet(p, legacy_key, SetKey(item, "post", post1))
        current_summary == IF "summary" \in DOMAIN post1
                           THEN post1.summary ELSE Str(EMPTY_STR)
    IN IF current_summary = None
       THEN Outcome(p1, <<>>, TRUE)          \* 'Legacy' not in None: TypeError
       ELSE
         LET post2 == IF ~Contains(current_summary.str, LEGACY_WORD)
                      THEN SetKey(post1, "summary",
                             Str(current_summary.str \o SUFFIX_OPEN
                                 \o new_path \o SUFFIX_CLOSE))
                      ELSE post1
             p2 == MapSet(p1, legacy_key, SetKey(item, "post", post2))
         IN Outcome(p2, <<Line("Marked", legacy_key)>>, FALSE)

\* the loop body of the first iterations of the script: no check that the new
\* path exists, no check that the summary already carries the suffix
ProcessEntry_NoGuards(p, row) ==
  LET legacy_key == SLASH \o row.legacy_path
      new_key == SLASH \o row.new_path
  IN IF p = None THEN Outcome(p, <<>>, TRUE)
     ELSE IF HasKey(p, legacy_key)
     THEN LET p1 == MapSet(p, new_key, [post |-> build_review_post_operation(
                                     row.resource_plural, row.resource_singular)])
              m == mark_legacy_deprecated_Always(p1, legacy_key, row.new_path)
          IN Outcome(m.paths, <<Line("Added", new_key)>> \o m.lines, m.raised)
     ELSE Outcome(p, <<Line("CouldNotFind", legacy_key)>>, FALSE)

\* the loop body with the call of mark_legacy_deprecated dedented out of the
\* `if new_key not in paths` block
ProcessEntry_MarkOutside(p, row) ==
  LET legacy_key == SLASH \o row.legacy_path
      new_key == SLASH \o row.new_path
  IN IF p = None THEN Outcome(p, <<>>, TRUE)
     ELSE LET first ==
                IF ~HasKey(p, new_key)
                THEN IF HasKey(p, legacy_key)
                     THEN Outcome(MapSet(p, new_key,
                                    [post |-> build_review_post_operation(
                                       row.resource_plural, row.resource_singular)]),
                                  <<Line("Added", new_key)>>, FALSE)
                     ELSE Outcome(p, <<Line("CouldNotFind", legacy_key)>>, FALSE)
                ELSE Outcome(p, <<Line("AlreadyExists", new_key)>>, FALSE)
              m == mark_legacy_deprecated(first.paths, legacy_key, row.new_path)
          IN Outcome(m.paths, first.lines \o m.lines, m.raised)

\* the loop body that adds the new path also when the legacy path is missing
ProcessEntry_AddsAnyway(p, row) ==
  LET legacy_key == SLASH \o row.legacy_path
      new_key == SLASH \o row.new_path
  IN IF p = None THEN Outcome(p, <<>>, TRUE)
     ELSE IF ~HasKey(p, new_key)
     THEN LET p1 == MapSet(p, new_key, [post |-> build_review_post_operation(
                                     row.resource_plural, row.resource_singular)])
          IN IF HasKey(p, legacy_key)
             THEN LET m == mark_legacy_deprecated(p1, legacy_key, row.new_path)
                  IN Outcome(m.paths, <<Line("Added", new_key)>> \o m.lines, m.raised)
             ELSE Outcome(p1, <<Line("CouldNotFind", legacy_key)>>, FALSE)
     ELSE Outcome(p, <<Line("AlreadyExists", new_key)>>, FALSE)

\* the loop body that skips a row as soon as any standardized path was added
\* (the test looks for a '/reviews' key instead of this row's new key)
ProcessEntry_AnyReviews(p, row) ==
  LET legacy_key == SLASH \o row.legacy_path
      new_key == SLASH \o row.new_path
  IN IF p = None THEN Outcome(p, <<>>, TRUE)
     ELSE IF ~(\E key \in DOMAIN p.val : Contains(key, "/reviews"))
     THEN IF HasKey(p, legacy_key)
          THEN LET p1 == MapSet(p, new_key, [post |-> build_review_post_operation(
                                     row.resource_plural, row.resource_singular)])
                   m == mark_legacy_deprecated(p1, legacy_key, row.new_path)
               IN Outcome(m.paths, <<Line("Added", new_key)>> \o m.lines, m.raised)
          ELSE Outcome(p, <<Line("CouldNotFind", legacy_key)>>, FALSE)
     ELSE Outcome(p, <<Line("AlreadyExists", new_key)>>, FALSE)

\* one iteration of the for loop over `updates`
ProcessEntry(p, row) ==
  LET legacy_key == SLASH \o row.legacy_path
      new_key == SLASH \o row.new_path
  IN IF p = None
     THEN Outcome(p, <<>>, TRUE)             \* new_key not in None: TypeError
     ELSE IF ~HasKey(p, new_key)
     THEN IF HasKey(p, legacy_key)
          THEN LET new_post_op == build_review_post_operation(
                                     row.resource_plural, row.resource_singular)
                   p1 == MapSet(p, new_key, [post |-> new_post_op])
                   m == mark_legacy_deprecated(p1, legacy_key, row.new_path)
               IN Outcome(m.paths, <<Line("Added", new_key)>> \o m.lines, m.raised)
          ELSE Outcome(p, <<Line("CouldNotFind", legacy_key)>>, FALSE)
     ELSE Outcome(p, <<Line("AlreadyExists", new_key)>>, FALSE)

\* the for loop on rows 1..k of the table, in list order: an exception ends it
RECURSIVE RunRows(_, _)
RunRows(p, k) ==
  IF k = 0 THEN Outcome(p, <<>>, FALSE)
  ELSE LET before == RunRows(p, k - 1)
       IN IF before.raised THEN before
          ELSE LET r == ProcessEntry(before.paths, updates[k])
               IN Outcome(r.paths, before.lines \o r.lines, r.raised)

\* lines 124-140: the whole for loop
RunLoop(p) == RunRows(p, N)

----------------------------------------------------------------------------
(* Documents a run can start from *)

\* what one table row finds in `paths`: its legacy path item and its new
\* path item, each absent, null or a mapping of the named shape
RowKinds ==
  { [legacy |-> l, new |-> "absent"] :
       l \in { "null", "nopost", "post", "post_nullsummary", "post_plain",
               "post_plain_false", "post_word" } }
  \cup
  { [legacy |-> l, new |-> "custom"] :
       l \in { "absent", "post_plain", "post_suffixed_true" } }
  \cup
  { [legacy |-> "post_plain", new |-> "null"] }

\* the states of the rows next to those: a legacy operation not yet patched
PlainKinds == { [legacy |-> "post_plain", new |-> "absent"] }

OtherOp == [summary |-> Str(CustomSummary), tags |-> <<CustomSummary>>]

LegacyItem(l, row) ==
  CASE l = "null"   -> None
    [] l = "nopost" -> [get |-> OtherOp]
    [] l = "post"   -> [post |-> [tags |-> <<row.resource_plural>>]]
    [] l = "post_nullsummary" -> [post |-> [summary |-> None]]
    [] l = "post_plain" -> [get |-> OtherOp, post |-> [summary |-> Str(PlainSummary)]]
    [] l = "post_plain_false" ->
         [post |-> [summary |-> Str(PlainSummary), deprecated |-> FALSE]]
    [] l = "post_word" -> [post |-> [summary |-> Str(LegacyWordSummary)]]
    [] l = "post_suffixed_true" ->
         [post |-> [summary |-> Str(PlainSummary \o SUFFIX_OPEN \o row.new_path
                                    \o SUFFIX_CLOSE),
                    deprecated |-> TRUE]]

NewItem(n) ==
  CASE n = "null"   -> None
    [] n = "custom" -> [post |-> OtherOp]

\* the `paths` mapping holding, in table order, what assignment a gives to
\* the rows 1..k
RECURSIVE BuildPaths(_, _)
BuildPaths(a, k) ==
  IF k = 0 THEN EmptyMap
  ELSE LET m == BuildPaths(a, k - 1)
           row == updates[k]
       IN IF k \notin DOMAIN a THEN m
          ELSE LET m1 == IF a[k].legacy = "absent" THEN m
                         ELSE MapSet(m, SLASH \o row.legacy_path,
                                     LegacyItem(a[k].legacy, row))
               IN IF a[k].new = "absent" THEN m1
                  ELSE MapSet(m1, SLASH \o row.new_path, NewItem(a[k].new))

\* the rows in S, each in one of the given states
Assignments(S, kinds) == [S -> kinds]

\* the document a run starts from: the rows of a are populated as a says and
\* the unrelated path /users/login is there when other holds
StartDoc(a, other) ==
  [openapi |-> "3.0.0",
   paths |-> IF other
             THEN MapSet(BuildPaths(a, N), OtherKey, [post |-> OtherOp])
             ELSE BuildPaths(a, N)]

Yaml(doc) == [yaml |-> doc]

Missing == [missing |-> TRUE]

Garbage == [garbage |-> TRUE]

Truncated == [truncated |-> TRUE]

\* swagger.yaml is missing, is not YAML, is empty, has no `paths`, has a null
\* `paths`, or has a `paths` mapping in which at most MaxRich rows are in any
\* state of `rich`, and at most MaxPresent groups of paths are populated at all
StartFile(f, rich, plain) ==
  \/ f \in { Missing, Garbage, Yaml(None), Yaml([openapi |-> "3.0.0"]),
             Yaml([openapi |-> "3.0.0", paths |-> None]) }
  \/ \E R \in SUBSET (1..N) :
       /\ Cardinality(R) <= MaxRich
       /\ Cardinality(R) <= MaxPresent
       /\ \E P \in SUBSET ((1..N) \ R) :
            /\ Cardinality(R) + Cardinality(P) <= MaxPresent
            /\ \E a \in Assignments(R, rich) :
               \E b \in Assignments(P, plain) :
               \E other \in BOOLEAN :
                 /\ other => Cardinality(R) + Cardinality(P) < MaxPresent
                 /\ f = Yaml(StartDoc(a @@ b, other))

----------------------------------------------------------------------------
(* The process *)

Unset == [unset |-> TRUE]

InitWith(rich, plain) ==
  /\ pc = "import"
  /\ StartFile(file, rich, plain)
  /\ file0 = file
  /\ swagger = Unset
  /\ paths = Unset
  /\ processed = {}
  /\ out = <<>>
  /\ writes = 0
  /\ exitCode = -1

Init == InitWith(RowKinds, PlainKinds)

\* lines 13-14: ruamel.yaml is installed
ImportOk ==
  /\ pc = "import"
  /\ pc' = "load"
  /\ UNCHANGED <<file, file0, swagger, paths, processed, out, writes, exitCode>>

\* lines 15-17: ruamel.yaml is not installed
ImportError ==
  /\ pc = "import"
  /\ out' = Append(out, [kind |-> "RuamelRequired"])
  /\ exitCode' = 1
  /\ pc' = "exited"
  /\ UNCHANGED <<file, file0, swagger, paths, processed, writes>>

\* a load that opens swagger.yaml in 'w+' mode: the file is cut to nothing
\* before the parser sees it
Load_Truncating ==
  /\ pc = "load"
  /\ file' = Truncated
  /\ writes' = writes + 1
  /\ pc' = "raised"
  /\ exitCode' = 1
  /\ UNCHANGED <<file0, swagger, paths, processed, out>>

\* lines 107-108: open for reading and parse
Load ==
  /\ pc = "load"
  /\ IF "yaml" \in DOMAIN file
     THEN /\ swagger' = file.yaml
          /\ pc' = "get_paths"
          /\ UNCHANGED exitCode
     ELSE /\ pc' = "raised"          \* FileNotFoundError or a parser error
          /\ exitCode' = 1
          /\ UNCHANGED swagger
  /\ UNCHANGED <<file, file0, paths, processed, out, writes>>

\* line 122: paths = swagger.get('paths', {})
GetPaths ==
  /\ pc = "get_paths"
  /\ IF swagger = None
     THEN /\ pc' = "raised"          \* None has no attribute get
          /\ exitCode' = 1
          /\ UNCHANGED paths
     ELSE /\ paths' = IF "paths" \in DOMAIN swagger THEN swagger.paths ELSE EmptyMap
          /\ pc' = "loop"
          /\ UNCHANGED exitCode
  /\ UNCHANGED <<file, file0, swagger, processed, out, writes>>

\* lines 124-140, one iteration, on row k of the table
Iterate(k) ==
  LET r == ProcessEntry(paths, updates[k])
  IN /\ paths' = r.paths
     \* `paths` is the very object under swagger['paths'] when that key exists
     /\ swagger' = IF "paths" \in DOMAIN swagger
                   THEN [swagger EXCEPT !.paths = r.paths] ELSE swagger
     /\ out' = out \o r.lines
     /\ IF r.raised
        THEN /\ pc' = "raised"
             /\ exitCode' = 1
             /\ UNCHANGED processed
        ELSE /\ processed' = processed \cup {k}
             /\ UNCHANGED <<pc, exitCode>>
     /\ UNCHANGED <<file, file0, writes>>

\* the for statement takes the rows in list order
LoopStep ==
  /\ pc = "loop"
  /\ processed # 1..N
  /\ Iterate(CHOOSE k \in (1..N) \ processed : \A j \in (1..N) \ processed : k <= j)

\* line 143: swagger['paths'] = paths
AssignPaths ==
  /\ pc = "loop"
  /\ processed = 1..N
  /\ swagger' = SetKey(swagger, "paths", paths)
  /\ pc' = "open_write"
  /\ UNCHANGED <<file, file0, paths, processed, out, writes, exitCode>>

\* line 146: open(swagger_path, 'w') truncates the file
OpenWrite ==
  /\ pc = "open_write"
  /\ file' = Truncated
  /\ writes' = writes + 1
  /\ pc' = "dump"
  /\ UNCHANGED <<file0, swagger, paths, processed, out, exitCode>>

\* line 146: the file cannot be opened for writing
OpenWriteError ==
  /\ pc = "open_write"
  /\ pc' = "raised"
  /\ exitCode' = 1
  /\ UNCHANGED <<file, file0, swagger, paths, processed, out, writes>>

\* line 147: yaml.dump(swagger, f)
Dump ==
  /\ pc = "dump"
  /\ file' = Yaml(swagger)
  /\ pc' = "print_done"
  /\ UNCHANGED <<file0, swagger, paths, processed, out, writes, exitCode>>

\* line 147: the dump fails part way, the file stays cut short
DumpError ==
  /\ pc = "dump"
  /\ pc' = "raised"
  /\ exitCode' = 1
  /\ UNCHANGED <<file, file0, swagger, paths, processed, out, writes>>

\* line 149 and the normal end of the process
PrintDone ==
  /\ pc = "print_done"
  /\ out' = Append(out, [kind |-> "UpdatedSuccessfully"])
  /\ exitCode' = 0
  /\ pc' = "done"
  /\ UNCHANGED <<file, file0, swagger, paths, processed, writes>>

Next ==
  \/ ImportOk
  \/ ImportError
  \/ Load
  \/ GetPaths
  \/ LoopStep
  \/ AssignPaths
  \/ OpenWrite
  \/ OpenWriteError
  \/ Dump
  \/ DumpError
  \/ PrintDone

Spec == Init /\ [][Next]_vars

----------------------------------------------------------------------------
(* The same process with the rows of the table taken in any order *)

\* the row states the reordered runs start from
PermKinds ==
  { [legacy |-> "post_plain", new |-> "absent"],
    [legacy |-> "null", new |-> "absent"],
    [legacy |-> "post_plain", new |-> "custom"] }

InitPerm == InitWith(PermKinds, PlainKinds)

\* lines 124-140 over a permuted `updates`: the next row is the first or the
\* last of the rows not yet taken, which gives the table order, its reverse
\* and every order in between that takes rows from the two ends
LoopStepAny ==
  /\ pc = "loop"
  /\ \E k \in (1..N) \ processed :
       /\ \/ \A j \in (1..N) \ processed : k <= j
          \/ \A j \in (1..N) \ processed : k >= j
       /\ Iterate(k)

NextPerm ==
  \/ ImportOk
  \/ ImportError
  \/ Load
  \/ GetPaths
  \/ LoopStepAny
  \/ AssignPaths
  \/ OpenWrite
  \/ OpenWriteError
  \/ Dump
  \/ DumpError
  \/ PrintDone

SpecPerm == InitPerm /\ [][NextPerm]_vars

----------------------------------------------------------------------------
(* Properties *)

LegacyKeyOf == [k \in 1..N |-> "/" \o updates[k].legacy_path]

NewKeyOf == [k \in 1..N |-> "/" \o updates[k].new_path]

LegacyKey(k) == LegacyKeyOf[k]

NewKey(k) == NewKeyOf[k]

IsMap(p) == "val" \in DOMAIN p

\* the `paths` mapping the for loop starts from
Paths0 ==
  IF "yaml" \in DOMAIN file0 /\ file0.yaml # None /\ "paths" \in DOMAIN file0.yaml
  THEN file0.yaml.paths
  ELSE EmptyMap

\* the printed lines that name a path of row k
LinesAbout(k) ==
  LET Names(l) == "key" \in DOMAIN l /\ l.key \in {LegacyKey(k), NewKey(k)}
  IN SelectSeq(out, Names)

LoopFinished == processed = 1..N

\* row k finds its legacy path and not its new path in the starting document
ToInsert(k) == HasKey(Paths0, LegacyKey(k)) /\ ~HasKey(Paths0, NewKey(k))

\* C1: once the for loop has run over a document, running it again over the
\* result raises nothing and changes nothing: no path key is added, no summary
\* gains a second suffix, no deprecated flag changes.
C1_Idempotent ==
  LoopFinished =>
    LET again == RunLoop(paths)
    IN ~again.raised /\ again.paths = paths

\* a finished loop that added a path and suffixed a legacy summary
C1_Witness ==
  /\ LoopFinished
  /\ \E k \in 1..N :
       /\ ToInsert(k)
       /\ "post" \in DOMAIN Paths0.val[LegacyKey(k)]
       /\ "summary" \in DOMAIN Paths0.val[LegacyKey(k)].post
       /\ paths.val[LegacyKey(k)].post.summary
            # Paths0.val[LegacyKey(k)].post.summary

\* C2: a row whose new key is in the starting document mutates nothing: the
\* value under the new key and the legacy path item stay as they were, no
\* legacy key appears, and the row prints the "already exists" line only.
C2_SkipWhenExists ==
  IsMap(paths) =>
    \A k \in 1..N :
      HasKey(Paths0, NewKey(k)) =>
        /\ HasKey(paths, NewKey(k))
        /\ paths.val[NewKey(k)] = Paths0.val[NewKey(k)]
        /\ HasKey(paths, LegacyKey(k)) <=> HasKey(Paths0, LegacyKey(k))
        /\ HasKey(Paths0, LegacyKey(k)) =>
             paths.val[LegacyKey(k)] = Paths0.val[LegacyKey(k)]
        /\ k \in processed =>
             LinesAbout(k) = <<Line("AlreadyExists", NewKey(k))>>

\* a skipped row whose legacy operation is not deprecated
C2_Witness ==
  /\ pc = "done"
  /\ \E k \in 1..N :
       /\ HasKey(Paths0, NewKey(k))
       /\ HasKey(paths, LegacyKey(k))
       /\ paths.val[LegacyKey(k)] # None
       /\ "post" \in DOMAIN paths.val[LegacyKey(k)]
       /\ "deprecated" \notin DOMAIN paths.val[LegacyKey(k)].post

\* C3 as stated: after a run, every row that found its legacy key and not its
\* new key has a deprecated legacy post operation whose summary holds "Legacy".
C3_Original ==
  pc = "done" =>
    \A k \in 1..N :
      ToInsert(k) =>
        /\ "post" \in DOMAIN paths.val[LegacyKey(k)]
        /\ "deprecated" \in DOMAIN paths.val[LegacyKey(k)].post
        /\ paths.val[LegacyKey(k)].post.deprecated = TRUE
        /\ Contains(paths.val[LegacyKey(k)].post.summary.str, "Legacy")

\* C3 amended: a processed row that found its legacy key with a post operation
\* and not its new key has that operation deprecated with "Legacy" in its
\* summary; a legacy path item without a post operation is left as it was.
C3_DeprecationMarking ==
  IsMap(paths) =>
    \A k \in processed :
      ToInsert(k) =>
        IF "post" \in DOMAIN Paths0.val[LegacyKey(k)]
        THEN /\ "post" \in DOMAIN paths.val[LegacyKey(k)]
             /\ "deprecated" \in DOMAIN paths.val[LegacyKey(k)].post
             /\ paths.val[LegacyKey(k)].post.deprecated = TRUE
             /\ "summary" \in DOMAIN paths.val[LegacyKey(k)].post
             /\ Contains(paths.val[LegacyKey(k)].post.summary.str, "Legacy")
        ELSE paths.val[LegacyKey(k)] = Paths0.val[LegacyKey(k)]

\* a finished run that marked an operation that was explicitly not deprecated
C3_Witness ==
  /\ pc = "done"
  /\ \E k \in 1..N :
       /\ ToInsert(k)
       /\ "post" \in DOMAIN Paths0.val[LegacyKey(k)]
       /\ "deprecated" \in DOMAIN Paths0.val[LegacyKey(k)].post
       /\ ~Paths0.val[LegacyKey(k)].post.deprecated
       /\ paths.val[LegacyKey(k)].post.deprecated

\* C4: a processed row that found its legacy key and not its new key has
\* under its new key exactly {post: op}, with tags [plural], the summary
\* "Add Review to <singular> (Standardized)", a request-body schema that
\* requires [rating, comment] and the responses 201, 400, 401, 403 and 422.
C4_InsertionCorrect ==
  IsMap(paths) =>
    \A k \in processed :
      ToInsert(k) =>
        /\ HasKey(paths, NewKey(k))
        /\ DOMAIN paths.val[NewKey(k)] = {"post"}
        /\ LET op == paths.val[NewKey(k)].post
           IN /\ op.tags = <<updates[k].resource_plural>>
              /\ op.summary = Str("Add Review to " \o updates[k].resource_singular
                                  \o " (Standardized)")
              /\ k = 3 => op.tags = <<"Doctors">>
              /\ k = 3 => op.summary = Str("Add Review to Doctor (Standardized)")
              /\ op.requestBody.content["application/json"].schema.required
                   = <<"rating", "comment">>
              /\ DOMAIN op.responses = {"201", "400", "401", "403", "422"}

\* a finished run that inserted the doctors path
C4_Witness ==
  /\ pc = "done"
  /\ ToInsert(3)
  /\ HasKey(paths, "/doctors/{id}/reviews")
  /\ "201" \in DOMAIN paths.val["/doctors/{id}/reviews"].post.responses

\* C5: the iteration on a row that finds neither its legacy key nor its new
\* key in the starting document prints the warning that names the legacy key,
\* and changes nothing in `paths`: no key added, no value changed.
C5_WarningOnAbsentLegacy ==
  [][ \A k \in 1..N :
        ( /\ k \notin processed
          /\ k \in processed'
          /\ ~HasKey(Paths0, LegacyKey(k))
          /\ ~HasKey(Paths0, NewKey(k)) )
        => /\ paths' = paths
           /\ ~HasKey(paths', LegacyKey(k))
           /\ ~HasKey(paths', NewKey(k))
           /\ out' = Append(out, Line("CouldNotFind", LegacyKey(k))) ]_vars

\* a finished run over a populated document in which a row warned
C5_Witness ==
  /\ pc = "done"
  /\ Paths0.keys # <<>>
  /\ \E k \in 1..N :
       /\ ~HasKey(Paths0, LegacyKey(k))
       /\ ~HasKey(Paths0, NewKey(k))
       /\ LinesAbout(k) = <<Line("CouldNotFind", LegacyKey(k))>>
       /\ ~HasKey(paths, NewKey(k))

\* C6 as stated: a run prints one line for each row and the completion line,
\* N + 1 lines in all.
C6_Original == pc = "done" => Len(out) = N + 1

\* the lines row k prints, read off the starting document
ExpectedLines(k) ==
  IF HasKey(Paths0, NewKey(k))
  THEN <<Line("AlreadyExists", NewKey(k))>>
  ELSE IF HasKey(Paths0, LegacyKey(k))
  THEN <<Line("Added", NewKey(k))>>
       \o IF "post" \in DOMAIN Paths0.val[LegacyKey(k)]
          THEN <<Line("Marked", LegacyKey(k))>> ELSE <<>>
  ELSE <<Line("CouldNotFind", LegacyKey(k))>>

RECURSIVE ExpectedReport(_)
ExpectedReport(j) ==
  IF j = 0 THEN <<>> ELSE ExpectedReport(j - 1) \o ExpectedLines(j)

\* the rows that print the line of mark_legacy_deprecated
MarkedRows ==
  { k \in 1..N : ToInsert(k) /\ "post" \in DOMAIN Paths0.val[LegacyKey(k)] }

\* C6 amended: the rows print in table order, each one line, and a row that
\* adds its new path prints a second line, "Marked <legacy key> as deprecated",
\* when the legacy path item has a post operation; the completion line comes
\* last, after the file is written: N + 1 lines plus one for each marked row.
C6_ReportShape ==
  (paths # Unset /\ (pc # "raised" \/ LoopFinished)) =>
    /\ out = ExpectedReport(Cardinality(processed))
               \o IF pc = "done" THEN <<[kind |-> "UpdatedSuccessfully"]>> ELSE <<>>
    /\ pc = "done" =>
         /\ Len(out) = N + 1 + Cardinality(MarkedRows)
         /\ Len(out) <= 2 * N + 1

\* a finished run that printed more than N + 1 lines
C6_Witness ==
  /\ pc = "done"
  /\ Len(out) > N + 1
  /\ \E a \in 1..(Len(out) - 1) :
       out[a].kind = "Added" /\ out[a + 1].kind = "Marked"

\* C7 as stated: whatever document was loaded, the for loop takes all the rows
\* and raises nothing.
C7_NoErrors ==
  (paths # Unset /\ pc = "raised") => LoopFinished

\* C8: swagger.yaml is opened for writing at most once, and only after the
\* import, the load and all the rows; until then its content is the content
\* the run started with, whichever way the run ends; a run that completes has
\* written the file once, with the document in memory.
C8_WriteAfterConstruct ==
  /\ writes <= 1
  /\ writes > 0 => (swagger # Unset /\ IsMap(paths) /\ LoopFinished
                    /\ "paths" \in DOMAIN swagger /\ swagger.paths = paths)
  /\ writes = 0 => file = file0
  /\ pc = "exited" => (writes = 0 /\ swagger = Unset /\ exitCode = 1)
  /\ (pc = "raised" /\ ~LoopFinished) => (writes = 0 /\ file = file0)
  /\ pc = "done" => (writes = 1 /\ file = Yaml(swagger) /\ exitCode = 0)

\* a completed run that mutated nothing and still wrote the file
C8_Witness ==
  /\ pc = "done"
  /\ writes = 1
  /\ Paths0.keys # <<>>
  /\ paths = Paths0

\* C9 as stated: taking the rows in another order gives the document of the
\* table order, `paths` compared as an insertion-ordered mapping.
C9_Original ==
  LoopFinished => paths = RunLoop(Paths0).paths

\* the keys of an insertion-ordered mapping, as a set
KeySet(m) == { m.keys[a] : a \in 1..Len(m.keys) }

\* C9 amended: taking the rows in another order gives the same keys with the
\* same values as the table order, and raises exactly when the table order
\* raises; only the position of the added keys follows the order of the rows.
C9_OrderIndependentValues ==
  /\ LoopFinished =>
       LET t == RunLoop(Paths0)
       IN /\ ~t.raised
          /\ paths.val = t.paths.val
          /\ KeySet(paths) = KeySet(t.paths)
          /\ Len(paths.keys) = Len(t.paths.keys)
          /\ SubSeq(paths.keys, 1, Len(Paths0.keys)) = Paths0.keys
  /\ (paths # Unset /\ pc = "raised" /\ ~LoopFinished) => RunLoop(Paths0).raised

\* a reordered run whose added keys stand in another order than the table's
C9_Witness ==
  /\ pc = "done"
  /\ paths.keys # RunLoop(Paths0).paths.keys
  /\ paths.val = RunLoop(Paths0).paths.val

\* a path item that differs from `old` at most in the deprecated flag and
\* the summary of its post operation
SameButMark(old, new) ==
  IF old = None \/ "post" \notin DOMAIN old \/ new = None
  THEN new = old
  ELSE /\ DOMAIN new = DOMAIN old
       /\ \A m \in DOMAIN old \ {"post"} : new[m] = old[m]
       /\ IF old.post = None THEN new.post = None
          ELSE /\ DOMAIN old.post \subseteq DOMAIN new.post
               /\ DOMAIN new.post \subseteq DOMAIN old.post \cup {"deprecated", "summary"}
               /\ \A f \in DOMAIN old.post \ {"deprecated", "summary"} :
                    new.post[f] = old.post[f]

LegacyKeys == { LegacyKey(k) : k \in 1..N }

\* C10: a run removes no key of `paths`, changes no value under a key that is
\* not a legacy key of the table, changes under a legacy key nothing but the
\* deprecated flag and the summary of its post operation, and adds only new
\* keys of rows whose legacy key was there; after the loop a new key is there
\* exactly when it or its legacy key was there before.
C10_Frame ==
  IsMap(paths) =>
    /\ SubSeq(paths.keys, 1, Len(Paths0.keys)) = Paths0.keys
    /\ \A key \in DOMAIN Paths0.val :
         IF key \in LegacyKeys
         THEN SameButMark(Paths0.val[key], paths.val[key])
         ELSE paths.val[key] = Paths0.val[key]
    /\ \A key \in DOMAIN paths.val \ DOMAIN Paths0.val :
         \E k \in 1..N : key = NewKey(k) /\ HasKey(Paths0, LegacyKey(k))
    /\ LoopFinished =>
         \A k \in 1..N :
           HasKey(paths, NewKey(k))
             <=> (HasKey(Paths0, NewKey(k)) \/ HasKey(Paths0, LegacyKey(k)))

\* a finished run that marked a legacy operation sitting next to a get
\* operation and left the unrelated path alone
C10_Witness ==
  /\ pc = "done"
  /\ HasKey(paths, OtherKey)
  /\ \E k \in 1..N :
       /\ ToInsert(k)
       /\ DOMAIN paths.val[LegacyKey(k)] = {"get", "post"}
       /\ paths.val[LegacyKey(k)] # Paths0.val[LegacyKey(k)]

====
